---- MODULE Spec2Model ----
(***************************************************************************)
(* Model of ui/sd_internal/runtime.py: the per-thread render device, the   *)
(* model cache and the generation pipeline (mk_img / do_mk_img).           *)
(*                                                                         *)
(* thread_data is the thread-local record of the worker.  torch_cuda is    *)
(* the hardware the process sees through torch.cuda.  The generator        *)
(* mk_img is followed by a program counter pc; one action per stretch of   *)
(* code between two places where the generator can be suspended or an      *)
(* exception can be raised.                                                *)
(***************************************************************************)
EXTENDS Integers, Sequences, FiniteSets, TLC

\* ------------------------------------------------------------------ bounds
MaxDevices == 3      \* accelerators the machine may hold
MaxMemFree == 1      \* free memory readings range over 0..MaxMemFree
MaxRequests == 2     \* requests a worker serves in one behaviour
MaxSteps == 2        \* inference steps a request may ask for
MaxOutputs == 2      \* num_outputs a request may ask for
MaxFilterCalls == 3
MaxSubprompts == 2
MaxSeed == 1
MaxReading == 3  \* direct calls of apply_filters in one behaviour

\* ------------------------------------------------------- program constants
MinVramGB == 3
PreviewEvery == 5       \* device_would_fail: mem_total < 3.0 is rejected
current_device == 0  \* torch.cuda.current_device() of a thread that never set one

\* --------------------------------------------------------------- hardware
\* mem_total in GB below, at and above the 3 GB threshold
MemTotals == {MinVramGB - 1, MinVramGB}

HardwareWith(maxdev) ==
    { [is_available |-> FALSE, device_count |-> 0,
       mem_free |-> <<>>, mem_total |-> <<>>, is16xx |-> <<>>] }
    \cup
    UNION { { [is_available |-> TRUE, device_count |-> n,
               mem_free |-> f, mem_total |-> t, is16xx |-> x] :
                 f \in [1..n -> 0..MaxMemFree],
                 t \in [1..n -> MemTotals],
                 x \in [1..n -> BOOLEAN] } : n \in 1..maxdev }

\* device d (0-based, as torch numbers them) exists
DeviceExists(hw, d) == hw.is_available /\ d >= 0 /\ d < hw.device_count

\* ---------------------------------------------------------------- devices
\* thread_data.device: None, 'cpu', an int (from 'gpu:N', 'auto' or the
\* current device) or the string 'cuda:N' kept as given.
NoDevice == [kind |-> "None", n |-> 0]
CpuDevice == [kind |-> "cpu", n |-> 0]
IntDevice(d) == [kind |-> "int", n |-> d]
StrDevice(d) == [kind |-> "cuda:", n |-> d]

\* device selectors device_init is called with (lower case)
Selectors ==
    { [kind |-> k, n |-> 0] : k \in {"cpu", "auto", "current", "cuda", "gpu"} }
    \cup { [kind |-> k, n |-> d] : k \in {"gpu:", "cuda:"}, d \in 0..MaxDevices }

\* ------------------------------------------------------------ worker state
VARIABLES torch_cuda,    \* the hardware torch.cuda reports to this process
          thread_data,   \* the thread-local worker context
          init_selection, \* the selector device_init was called with
          init_result,   \* how device_init ended: not_called, returned, or the error raised
          pc,            \* where the generator mk_img stands
          cur,           \* the request being served (or last served) and what it did
          prev,          \* summary of the request served before cur
          x_samples,     \* do_mk_img's local x_samples
          res_images,    \* do_mk_img's res.images
          filter_call,   \* the last direct call of apply_filters and what it did
          entry_flag,    \* thread_data.stop_processing when the observed mk_img was called
          poll           \* the locals of the last direct call of wait_model_move_to

vars == <<entry_flag, poll, torch_cuda, thread_data, init_selection, init_result, pc, cur, prev, x_samples,
          res_images, filter_call>>

\* a model handle: None, or the modules instantiated from a checkpoint
NoHandle == [ckpt |-> "None", vae |-> "None"]
Handle(ckpt, vae) == [ckpt |-> ckpt, vae |-> vae]

\* latents: x_samples[...] tensors, named by the request and the step that made them
NoAttr == [kind |-> "absent", req |-> 0, step |-> 0]      \* attribute not set (hasattr is False)
NoneLatent == [kind |-> "None", req |-> 0, step |-> 0]
Generator == [kind |-> "generator", req |-> 0, step |-> 0]  \* the un-iterated generator object
Latent(r, k) == [kind |-> "latent", req |-> r, step |-> k]

\* thread_data.model_real_esrgan: None, or the RealESRGANer built for a file
NoUpscaler == [file |-> "None", half |-> FALSE]
Upscaler(file, half) == [file |-> file, half |-> half]

\* device_init lines 105-130: the thread bound properties
FreshThreadData ==
    [stop_processing |-> FALSE,
     ckpt_file |-> "None", vae_file |-> "None", gfpgan_file |-> "None",
     real_esrgan_file |-> "None",
     model |-> NoHandle, modelCS |-> NoHandle, modelFS |-> NoHandle,
     model_gfpgan |-> "None", model_real_esrgan |-> NoUpscaler,
     \* where the modules of the handles reside: "cpu" or "device"
     loc_model1 |-> "cpu", loc_model2 |-> "cpu", loc_CS |-> "cpu", loc_FS |-> "cpu",
     model_is_half |-> FALSE, model_fs_is_half |-> FALSE,
     device |-> NoDevice,
     precision |-> "autocast",
     turbo |-> FALSE,
     force_full_precision |-> FALSE,
     reduced_memory |-> TRUE,
     partial_x_samples |-> NoAttr,
     \* the keys of the preview buffer: <<session_id, i>> for 'session_id/i'
     temp_images |-> {}]

\* ------------------------------------------------------------ device_select
\* the mutant: the size of the memory is not looked at
device_would_fail_any_memory(hw, device) ==
    IF device.kind = "cpu" THEN "None"
    ELSE IF device.kind = "auto" THEN "bad device string"
    ELSE IF ~DeviceExists(hw, device.n) THEN "invalid device ordinal"
    ELSE "None"

\* torch.cuda.mem_get_info(device) as device_would_fail sees it:
\* the device argument is an int, a 'cuda:N' string or the string 'auto'.
device_would_fail(hw, device) ==
    IF device.kind = "cpu" THEN "None"
    ELSE IF device.kind = "auto" THEN "bad device string"      \* RuntimeError, not 'invalid device'
    ELSE IF ~DeviceExists(hw, device.n) THEN "invalid device ordinal"
    ELSE IF hw.mem_total[device.n + 1] < MinVramGB THEN "less than 3 GB"
    ELSE "None"

\* the mutant: a missing device is reported like any other incompatibility
device_select_no_raise(hw, td, device) ==
    IF device.kind = "cpu" THEN [ret |-> "True", td |-> td]
    ELSE IF ~hw.is_available THEN [ret |-> "False", td |-> td]
    ELSE IF device_would_fail(hw, device) # "None" THEN [ret |-> "False", td |-> td]
    ELSE [ret |-> "True",
          td |-> [td EXCEPT !.device = device,
                            !.force_full_precision = hw.is16xx[device.n + 1],
                            !.precision = IF hw.is16xx[device.n + 1] THEN "full" ELSE @]]

\* device_select(device): ret is "True", "False" or "NameError"
device_select(hw, td, device) ==
    IF device.kind = "cpu" THEN [ret |-> "True", td |-> td]
    ELSE IF ~hw.is_available THEN [ret |-> "False", td |-> td]
    ELSE LET failure_msg == device_would_fail(hw, device) IN
         IF failure_msg # "None"
         THEN IF failure_msg = "invalid device ordinal"
              THEN [ret |-> "NameError", td |-> td]
              ELSE [ret |-> "False", td |-> td]
         ELSE [ret |-> "True",
               td |-> [td EXCEPT !.device = device,
                                 !.force_full_precision = hw.is16xx[device.n + 1],
                                 !.precision = IF hw.is16xx[device.n + 1] THEN "full" ELSE @]]

\* -------------------------------------------------------------- device_init
\* lines 150-160: the loop over range(device_count); best is -1 for None
RECURSIVE auto_loop(_, _, _, _)
auto_loop(hw, device, max_mem_free, best_device) ==
    IF device >= hw.device_count THEN best_device
    ELSE IF max_mem_free < hw.mem_free[device + 1]
         THEN auto_loop(hw, device + 1, hw.mem_free[device + 1], device)
         ELSE auto_loop(hw, device + 1, max_mem_free, best_device)

best_device_of(hw) == auto_loop(hw, 0, 0, -1)

\* Python truth value of best_device: None and 0 are both false
Truthy(best_device) == best_device # -1 /\ best_device # 0

\* the device object device_select receives for a selector (lines 165-168)
SelectorDevice(sel) ==
    IF sel.kind = "gpu:" THEN IntDevice(sel.n)
    ELSE IF sel.kind = "cuda:" THEN StrDevice(sel.n)
    ELSE [kind |-> sel.kind, n |-> 0]

Returned(td) == [result |-> "returned", td |-> td]
Raised(exc, td) == [result |-> exc, td |-> td]

\* lines 177-186: by default use the current device, else the CPU
use_current_device(hw, td) ==
    LET r == device_select(hw, td, IntDevice(current_device)) IN
    IF r.ret = "True" THEN Returned(r.td)
    ELSE IF r.ret = "NameError" THEN Raised("NameError", td)
    ELSE Returned([td EXCEPT !.device = CpuDevice])

\* lines 165-176: an explicit selector
use_explicit_device(hw, td, sel) ==
    IF sel.kind \notin {"cuda", "current", "gpu"}
    THEN LET r == device_select(hw, td, SelectorDevice(sel)) IN
         IF r.ret = "True" THEN Returned(r.td)
         ELSE IF r.ret = "NameError" THEN Raised("NameError", td)
         ELSE use_current_device(hw, td)
    ELSE use_current_device(hw, td)

\* lines 148-164: 'auto' with several devices; the device handed to
\* device_select is the loop variable, which holds the last index
use_auto_device(hw, td, sel) ==
    IF sel.kind = "auto" /\ Truthy(best_device_of(hw))
    THEN LET r == device_select(hw, td, IntDevice(hw.device_count - 1)) IN
         IF r.ret = "True" THEN Returned(r.td)
         ELSE IF r.ret = "NameError" THEN Raised("NameError", td)
         ELSE use_explicit_device(hw, td, sel)
    ELSE use_explicit_device(hw, td, sel)

\* the mutant: without CUDA every selector falls back to the CPU
device_init_cpu_fallback(hw, device_selection) ==
    LET td == FreshThreadData IN
    IF device_selection.kind = "cpu" \/ ~hw.is_available
    THEN Returned([td EXCEPT !.device = CpuDevice])
    ELSE LET sel == IF hw.device_count <= 1 /\ device_selection.kind = "auto"
                    THEN [kind |-> "current", n |-> 0]
                    ELSE device_selection
         IN use_auto_device(hw, td, sel)

device_init(hw, device_selection) ==
    LET td == FreshThreadData IN
    IF device_selection.kind = "cpu"
    THEN Returned([td EXCEPT !.device = CpuDevice])
    ELSE IF ~hw.is_available
    THEN IF device_selection.kind \in {"auto", "current"}
         THEN Returned([td EXCEPT !.device = CpuDevice])
         ELSE Raised("EnvironmentError", td)
    ELSE LET sel == IF hw.device_count <= 1 /\ device_selection.kind = "auto"
                    THEN [kind |-> "current", n |-> 0]
                    ELSE device_selection
         IN use_auto_device(hw, td, sel)

\* ---------------------------------------------------------------- requests
\* checkpoint files on disk: os.path.exists(name + '.ckpt')
ExistingCkpts == {"A", "B"}
Ckpts == ExistingCkpts \cup {"missing"}
Vaes == {"None", "V"}

\* prompt_strength is a float; the model holds it in units of 1 / StrengthUnit
StrengthUnit == 2
Strengths == (0 - 1)..(StrengthUnit + 1)

\* filter selection of a request: use_face_correction and
\* show_only_filtered_image (read only when a filter is selected)
FilterChoices == {<<"None", FALSE>>, <<"GFPGANv1.3", FALSE>>, <<"GFPGANv1.3", TRUE>>}

\* The fields of Request that do_mk_img reads for a text-to-image request,
\* drawn from the given sets.
RequestsOver(ckpts, vaes, fulls, streams, outs, steps, filters) ==
    { [use_stable_diffusion_model |-> c, use_vae_model |-> v,
       use_full_precision |-> f, stream_progress_updates |-> s,
       num_outputs |-> n, num_inference_steps |-> k,
       use_face_correction |-> g[1], show_only_filtered_image |-> g[2],
       use_upscale |-> "None", save_to_disk_path |-> FALSE,
       init_image |-> FALSE, prompt_strength |-> StrengthUnit,
       guidance_scale |-> "7.5", subprompts |-> 1, seed |-> 0,
       session_id |-> "s1", stream_image_progress |-> FALSE] :
         c \in ckpts, v \in vaes, f \in fulls, s \in streams,
         n \in outs, k \in steps, g \in filters }

\* the same requests as image-to-image requests: init_image is given and
\* prompt_strength is p / StrengthUnit
Img2Img(reqs, strengths) ==
    { [r EXCEPT !.init_image = TRUE, !.prompt_strength = p] :
        r \in reqs, p \in strengths }

\* the same requests with an upscaler and a save_to_disk_path (TRUE: given)
WithUpscaleAndDisk(reqs, upscales, disks) ==
    { [r EXCEPT !.use_upscale = u, !.save_to_disk_path = d] :
        r \in reqs, u \in upscales, d \in disks }

\* the same requests with a session and with live previews on or off
WithPreview(reqs, sessions, flags) ==
    { [r EXCEPT !.session_id = id, !.stream_image_progress = f] :
        r \in reqs, id \in sessions, f \in flags }

\* the same requests with a seed
WithSeed(reqs, seeds) ==
    { [r EXCEPT !.seed = n] : r \in reqs, n \in seeds }

\* the same requests with a guidance scale and with a prompt that
\* split_weighted_subprompts splits into n sub-prompts
WithGuidance(reqs, scales, counts) ==
    { [r EXCEPT !.guidance_scale = g, !.subprompts = n] :
        r \in reqs, g \in scales, n \in counts }

\* requests that differ in what the model cache keys on
CacheRequests ==
    RequestsOver(Ckpts, Vaes, BOOLEAN, {TRUE}, {1}, {1}, {<<"None", FALSE>>})
    \cup RequestsOver({"A"}, {"None"}, {FALSE}, {TRUE}, {1}, {1},
                      {<<"GFPGANv1.3", FALSE>>})

\* streaming requests with and without classifier-free guidance, whose prompt
\* is one sub-prompt or a blend of MaxSubprompts
GuidanceRequests ==
    WithGuidance(
        RequestsOver({"A"}, {"None"}, {FALSE}, {TRUE}, {1}, {1},
                     {<<"None", FALSE>>, <<"GFPGANv1.3", FALSE>>}),
        {"1.0", "7.5"}, 1..MaxSubprompts)

\* streaming requests of two sessions with and without live previews, for an
\* existing and for a missing checkpoint
PreviewRequests ==
    WithPreview(
        RequestsOver({"A"}, {"None"}, {FALSE}, {TRUE}, 1..MaxOutputs, {1},
                     {<<"None", FALSE>>}),
        {"s1", "s2"}, BOOLEAN)
    \cup RequestsOver(Ckpts \ ExistingCkpts, {"None"}, {FALSE}, {TRUE}, {1}, {1},
                      {<<"None", FALSE>>})
    \cup RequestsOver({"A"}, {"None"}, {FALSE}, {TRUE}, {1}, {1}, {<<"GFPGANv1.3", FALSE>>})

\* requests that differ in how sampling, decoding and saving run
SamplingRequests ==
    RequestsOver({"A"}, {"None"}, {FALSE}, BOOLEAN, 1..MaxOutputs, 1..MaxSteps,
                 FilterChoices)

\* text-to-image and image-to-image requests for one checkpoint, with every
\* strength below, inside and above [0, 1]
Img2ImgRequests ==
    LET base == RequestsOver({"A"}, {"None"}, {FALSE}, BOOLEAN, {1}, 1..MaxSteps,
                             {<<"None", FALSE>>})
        filtered == RequestsOver({"A"}, {"None"}, {FALSE}, {TRUE}, {1}, {1},
                                 {<<"GFPGANv1.3", FALSE>>})
    IN base \cup filtered \cup Img2Img(base \cup filtered, Strengths)

\* places inside load_model_ckpt where torch may raise (out of memory, bad file):
\* "sd" at line 211, "CS" at lines 244-252, "FS" at lines 255-272
LoadFaults == {"none", "sd", "CS", "FS"}

\* ------------------------------------------------------------- model cache
unload_filters(td) ==
    [td EXCEPT !.model_gfpgan = "None", !.model_real_esrgan = NoUpscaler]

\* where module.to(target) puts a module of a worker on td.device
Place(td, target) == IF td.device.kind = "cpu" THEN "cpu" ELSE target

\* torch.cuda.memory_allocated(thread_data.device): what the modules of the
\* worker hold on the accelerator, one unit a module
memory_allocated(td) ==
    Cardinality({ m \in {"loc_model1", "loc_model2", "loc_CS", "loc_FS"} :
                    td[m] = "device" })

\* wait_model_move_to(model, 'cpu'), lines 308-315, for the module placed in
\* field loc; the polling loop that follows changes no state
wait_model_move_to(td, loc) ==
    IF td.device = CpuDevice THEN td
    ELSE IF memory_allocated(td) <= 0 THEN td
    ELSE [td EXCEPT ![loc] = "cpu"]

unload_models(td) ==
    [td EXCEPT !.model = NoHandle, !.modelCS = NoHandle, !.modelFS = NoHandle]

Ok(td) == [exc |-> "None", td |-> td]
Exc(e, td) == [exc |-> e, td |-> td]

\* the mutant: the half flags keep the values of the load before
set_half_keeps_flags(td) == td

\* lines 276-284
set_half(td) ==
    LET half == td.device.kind # "cpu" /\ td.precision = "autocast" IN
    [td EXCEPT !.model_is_half = half, !.model_fs_is_half = half]

\* load_model_ckpt; fault names the place where torch raises, if any
load_model_ckpt(td, fault) ==
    IF td.ckpt_file = "None" THEN Exc("ValueError", td)
    ELSE IF td.ckpt_file \notin ExistingCkpts THEN Exc("FileNotFoundError", td)
    ELSE LET td1 == IF td.device.kind = "cpu" THEN [td EXCEPT !.precision = "full"] ELSE td
             resident == IF td.reduced_memory THEN "cpu" ELSE Place(td, "device")
             td2 == [td1 EXCEPT !.model = Handle(td.ckpt_file, "None"),
                                !.loc_model1 = Place(td, "device"),
                                !.loc_model2 = Place(td, "device")]
             td3 == [td2 EXCEPT !.modelCS = Handle(td.ckpt_file, "None"),
                                !.loc_CS = resident]
             td4 == [td3 EXCEPT !.modelFS = Handle(td.ckpt_file, td.vae_file),
                                !.loc_FS = resident]
         IN IF fault = "sd" THEN Exc("RuntimeError", td1)
            ELSE IF fault = "CS" THEN Exc("RuntimeError", td2)
            ELSE IF fault = "FS" THEN Exc("RuntimeError", td3)
            ELSE Ok(set_half(td4))

\* the mutant: the cache is keyed on the presence of a model only
reload_check_ignores_identity(td, req) ==
    LET stale == td.model = NoHandle
        td1 == [td EXCEPT !.ckpt_file = req.use_stable_diffusion_model,
                          !.vae_file = req.use_vae_model]
        prec == td1.device.kind # "cpu"
                /\ ( (td1.precision = "autocast"
                        /\ (req.use_full_precision \/ ~td1.model_is_half))
                     \/ (td1.precision = "full" /\ ~req.use_full_precision
                        /\ ~td1.force_full_precision) )
        td2 == IF prec
               THEN [td1 EXCEPT !.precision =
                        IF req.use_full_precision THEN "full" ELSE "autocast"]
               ELSE td1
    IN [needs_model_reload |-> stale \/ prec, td |-> td2]

\* the mutant: a change of the precision flag alone never reloads
reload_check_ignores_precision(td, req) ==
    LET stale == td.model = NoHandle
                 \/ td.ckpt_file # req.use_stable_diffusion_model
                 \/ td.vae_file # req.use_vae_model
        td1 == IF stale
               THEN [td EXCEPT !.ckpt_file = req.use_stable_diffusion_model,
                               !.vae_file = req.use_vae_model]
               ELSE td
    IN [needs_model_reload |-> stale, td |-> td1]

\* the mutant: the request's precision flag wins over force_full_precision
reload_check_ignores_force(td, req) ==
    LET stale == td.model = NoHandle
                 \/ td.ckpt_file # req.use_stable_diffusion_model
                 \/ td.vae_file # req.use_vae_model
        td1 == IF stale
               THEN [td EXCEPT !.ckpt_file = req.use_stable_diffusion_model,
                               !.vae_file = req.use_vae_model]
               ELSE td
        prec == td1.device.kind # "cpu"
                /\ ( (td1.precision = "autocast"
                        /\ (req.use_full_precision \/ ~td1.model_is_half))
                     \/ (td1.precision = "full" /\ ~req.use_full_precision) )
        td2 == IF prec
               THEN [td1 EXCEPT !.precision =
                        IF req.use_full_precision THEN "full" ELSE "autocast"]
               ELSE td1
    IN [needs_model_reload |-> stale \/ prec, td |-> td2]

\* do_mk_img lines 494-504: does the request need a reload, and the
\* identities and precision it leaves in thread_data
reload_check(td, req) ==
    LET stale == td.model = NoHandle
                 \/ td.ckpt_file # req.use_stable_diffusion_model
                 \/ td.vae_file # req.use_vae_model
        td1 == IF stale
               THEN [td EXCEPT !.ckpt_file = req.use_stable_diffusion_model,
                               !.vae_file = req.use_vae_model]
               ELSE td
        prec == td1.device.kind # "cpu"
                /\ ( (td1.precision = "autocast"
                        /\ (req.use_full_precision \/ ~td1.model_is_half))
                     \/ (td1.precision = "full" /\ ~req.use_full_precision
                        /\ ~td1.force_full_precision) )
        td2 == IF prec
               THEN [td1 EXCEPT !.precision =
                        IF req.use_full_precision THEN "full" ELSE "autocast"]
               ELSE td1
    IN [needs_model_reload |-> stale \/ prec, td |-> td2]

\* the mutant: the preview buffer keeps what the request before left in it
reset_keeps_previews(td) == [td EXCEPT !.stop_processing = FALSE]

\* do_mk_img lines 481-487: the flag and the preview buffer are reset
reset(td) == [td EXCEPT !.stop_processing = FALSE, !.temp_images = {}]

\* the mutant: the checkpoint file is looked for after the cache was keyed
prepare_checks_file_late(td, req, fault) ==
    LET td0 == reset(td)
        chk == reload_check(td0, req)
    IN IF req.use_stable_diffusion_model \notin ExistingCkpts
       THEN [exc |-> "FileNotFoundError", td |-> chk.td, reloads |-> 0]
       ELSE IF chk.needs_model_reload
       THEN LET r == load_model_ckpt(unload_filters(unload_models(chk.td)), fault)
            IN [exc |-> r.exc, td |-> r.td, reloads |-> 1]
       ELSE [exc |-> "None", td |-> chk.td, reloads |-> 0]

\* do_mk_img lines 481-516: exc, the thread data and the reloads performed
prepare(td, req, fault) ==
    LET td0 == reset(td) IN
    IF req.use_stable_diffusion_model \notin ExistingCkpts
    THEN [exc |-> "FileNotFoundError", td |-> td0, reloads |-> 0]
    ELSE LET chk == reload_check(td0, req) IN
         IF chk.needs_model_reload
         THEN LET r == load_model_ckpt(unload_filters(unload_models(chk.td)), fault)
              IN [exc |-> r.exc, td |-> r.td, reloads |-> 1]
         ELSE [exc |-> "None", td |-> chk.td, reloads |-> 0]

\* mk_img lines 414-431: what the except clause does with the exception;
\* outcome is "failed" when the failed record is yielded and "escaped" when
\* the clause itself raises (None has no attribute 'to')
mk_img_except(td) ==
    IF td.reduced_memory
    THEN IF td.modelFS = NoHandle \/ td.modelCS = NoHandle \/ td.model = NoHandle
         THEN [outcome |-> "escaped", td |-> td]
         ELSE [outcome |-> "failed",
               td |-> [td EXCEPT !.loc_FS = "cpu", !.loc_CS = "cpu",
                                 !.loc_model1 = "cpu", !.loc_model2 = "cpu"]]
    ELSE [outcome |-> "failed", td |-> unload_filters(unload_models(td))]

\* ----------------------------------------------------------------- filters
is_first_cuda_device(device) ==
    device.kind \in {"int", "cuda:"} /\ device.n = 0

load_model_gfpgan(td) ==
    IF td.gfpgan_file = "None" THEN Exc("ValueError", td)
    ELSE IF ~is_first_cuda_device(td.device) THEN Exc("Exception", td)
    ELSE Ok([td EXCEPT !.model_gfpgan = td.gfpgan_file])

\* the keys of RealESRGAN_models, lines 349-352
RealESRGAN_models == {"RealESRGAN_x4plus", "RealESRGAN_x4plus_anime_6B"}

\* the mutant: the upscaler is held to the first CUDA device as GFPGAN is
load_model_real_esrgan_first_device(td) ==
    IF td.real_esrgan_file = "None" THEN Exc("ValueError", td)
    ELSE IF ~is_first_cuda_device(td.device) THEN Exc("Exception", td)
    ELSE IF td.real_esrgan_file \notin RealESRGAN_models THEN Exc("KeyError", td)
    ELSE Ok([td EXCEPT !.model_real_esrgan =
                Upscaler(td.real_esrgan_file, td.model_is_half)])

\* load_model_real_esrgan, lines 343-364
load_model_real_esrgan(td) ==
    IF td.real_esrgan_file = "None" THEN Exc("ValueError", td)
    ELSE IF td.real_esrgan_file \notin RealESRGAN_models THEN Exc("KeyError", td)
    ELSE Ok([td EXCEPT !.model_real_esrgan =
                Upscaler(td.real_esrgan_file,
                         IF td.device = CpuDevice THEN FALSE ELSE td.model_is_half)])

\* the result of apply_filters: the exception, the thread data and the
\* number of calls of the filter's load function
Applied(r, loads) == [exc |-> r.exc, td |-> r.td, loads |-> loads]

\* the mutant: a present handle is used whatever identity is asked for
apply_filters_gfpgan_keeps_handle(td, model_path) ==
    IF td.model_gfpgan = "None"
    THEN Applied(load_model_gfpgan(
             [td EXCEPT !.gfpgan_file = IF model_path # "None" THEN model_path ELSE @]), 1)
    ELSE Applied(Ok(td), 0)

\* apply_filters('gfpgan', image, model_path), lines 387-396
apply_filters_gfpgan(td, model_path) ==
    LET differs == model_path # "None" /\ model_path # td.gfpgan_file
        absent == td.model_gfpgan = "None"
        r == IF differs
             THEN load_model_gfpgan([td EXCEPT !.gfpgan_file = model_path])
             ELSE IF absent THEN load_model_gfpgan(td)
             ELSE Ok(td)
        loads == IF differs \/ absent THEN 1 ELSE 0
    IN IF r.exc # "None" THEN Applied(r, loads)
       ELSE IF r.td.model_gfpgan = "None" THEN Applied(Exc("Exception", r.td), loads)
       ELSE Applied(r, loads)

\* apply_filters('real_esrgan', image, model_path), lines 398-407
apply_filters_real_esrgan(td, model_path) ==
    LET differs == model_path # "None" /\ model_path # td.real_esrgan_file
        absent == td.model_real_esrgan = NoUpscaler
        r == IF differs
             THEN load_model_real_esrgan([td EXCEPT !.real_esrgan_file = model_path])
             ELSE IF absent THEN load_model_real_esrgan(td)
             ELSE Ok(td)
        loads == IF differs \/ absent THEN 1 ELSE 0
    IN IF r.exc # "None" THEN Applied(r, loads)
       ELSE IF r.td.model_real_esrgan = NoUpscaler
            THEN Applied(Exc("Exception", r.td), loads)
       ELSE Applied(r, loads)

\* apply_filters(filter_name, image_data, model_path), lines 380-409
apply_filters(td, filter_name, model_path) ==
    IF filter_name = "gfpgan" THEN apply_filters_gfpgan(td, model_path)
    ELSE IF filter_name = "real_esrgan" THEN apply_filters_real_esrgan(td, model_path)
    ELSE Applied(Ok(td), 0)

\* bookkeeping of a call of apply_filters: its arguments, the thread data it
\* found, how it ended, and how many calls were made so far
NoFilterCall ==
    [n |-> 0, filter_name |-> "None", model_path |-> "None",
     before |-> FreshThreadData, after |-> FreshThreadData,
     exc |-> "None", loads |-> 0]

\* the identities callers pass as model_path; "None" is the default argument
FilterPaths(filter_name) ==
    IF filter_name = "gfpgan" THEN {"None", "GFPGANv1.3", "GFPGANv1.4"}
    ELSE {"None"} \cup RealESRGAN_models

\* a caller applies one filter to an image: apply_filters, lines 380-409
ApplyFilters(filter_name, model_path) ==
    /\ init_result = "returned"
    /\ pc = "idle"
    /\ filter_call.n < MaxFilterCalls
    /\ LET r == apply_filters(thread_data, filter_name, model_path) IN
       /\ thread_data' = r.td
       /\ filter_call' = [n |-> filter_call.n + 1,
                          filter_name |-> filter_name, model_path |-> model_path,
                          before |-> thread_data, after |-> r.td,
                          exc |-> r.exc, loads |-> r.loads]
    /\ UNCHANGED <<entry_flag, poll, torch_cuda, init_selection, init_result, pc, cur,
                   prev, x_samples, res_images>>

\* a caller releases the filter models: unload_filters, lines 288-295
UnloadFilters ==
    /\ init_result = "returned"
    /\ pc = "idle"
    /\ thread_data' = unload_filters(thread_data)
    /\ thread_data' # thread_data
    /\ UNCHANGED <<entry_flag, poll, filter_call, torch_cuda, init_selection, init_result, pc, cur, prev,
                   x_samples, res_images>>

\* ------------------------------------------------------ wait_model_move_to
\* the locals of wait_model_move_to: where the call stands, its target, the
\* first reading, the last reading, whether model.to() ran, whether the loop
\* took a reading
NoPoll ==
    [pc |-> "not_called", target |-> NoDevice, start_mem |-> 0, last_mem |-> 0,
     moved |-> FALSE, polled |-> FALSE, again |-> FALSE]

\* the readings torch.cuda.memory_allocated can give
Readings == 0..MaxReading

\* the mutant: the loop goes on for as long as memory is allocated
is_transfering_while_allocated(mem, last_mem) == mem > 0

\* line 323
is_transfering(mem, last_mem) == mem > 0 /\ mem < last_mem

\* wait_model_move_to is called: lines 309-319, mem is the reading of line 310
WaitBegin(target, mem) ==
    /\ init_result = "returned"
    /\ pc = "idle"
    /\ poll.pc # "polling"
    /\ poll' = IF thread_data.device = target \/ mem <= 0
               THEN [NoPoll EXCEPT !.pc = "returned", !.target = target]
               ELSE [NoPoll EXCEPT !.pc = "polling", !.target = target,
                                   !.start_mem = mem, !.last_mem = mem,
                                   !.moved = TRUE]
    /\ UNCHANGED <<entry_flag, filter_call, torch_cuda, thread_data, init_selection,
                   init_result, pc, cur, prev, x_samples, res_images>>

\* one round of the loop, lines 320-326, mem is the reading of line 322
WaitPoll(mem) ==
    /\ poll.pc = "polling"
    /\ poll' = [poll EXCEPT
                   !.pc = IF is_transfering(mem, poll.last_mem)
                          THEN "polling" ELSE "returned",
                   !.again = is_transfering(mem, poll.last_mem),
                   !.last_mem = mem,
                   !.polled = TRUE]
    /\ UNCHANGED <<entry_flag, filter_call, torch_cuda, thread_data, init_selection,
                   init_result, pc, cur, prev, x_samples, res_images>>

\* ---------------------------------------------------------------- pipeline
NoRequest ==
    [use_stable_diffusion_model |-> "None", use_vae_model |-> "None",
     use_full_precision |-> FALSE, stream_progress_updates |-> FALSE,
     num_outputs |-> 0, num_inference_steps |-> 0,
     use_face_correction |-> "None", show_only_filtered_image |-> FALSE,
     use_upscale |-> "None", save_to_disk_path |-> FALSE,
     init_image |-> FALSE, prompt_strength |-> 0,
     guidance_scale |-> "7.5", subprompts |-> 0, seed |-> 0,
     session_id |-> "None", stream_image_progress |-> FALSE]

\* what the model cache is keyed on
Snapshot(td) ==
    [ckpt_file |-> td.ckpt_file, vae_file |-> td.vae_file,
     precision |-> td.precision, model |-> td.model]
NoSnapshot == Snapshot(FreshThreadData)

\* bookkeeping of one request: what it asked and what the pipeline did for it
NewRun(id, req) ==
    [id |-> id, req |-> req,
     reloads |-> 0,          \* calls of load_model_ckpt
     steps_run |-> 0,        \* denoising steps run
     events |-> 0,           \* progress events yielded
     decoded |-> 0,          \* latents decoded at lines 639-644
     saved |-> 0,            \* batch elements the save loop has handled
     faulted |-> FALSE,      \* torch raised somewhere in this request
     total_steps |-> -1,     \* total_steps the progress events carry; -1: no callback built
     filtered |-> 0,         \* batch elements whose filters have run
     files |-> <<>>,         \* files written under save_to_disk_path, in order
     exc |-> "None",         \* the exception that left do_mk_img
     uc |-> "unset",         \* the unconditional conditioning of lines 588-590
     opt_seed |-> req.seed,  \* line 519
     before |-> NoSnapshot,  \* identities and precision when mk_img was called
     cancel_events |-> -1,   \* events yielded when the flag was set; -1: never set
     abort_step |-> -1,      \* step whose callback raised UserInitiatedStop; -1: none
     outcome |-> "running"]  \* running, success, failed (record yielded), escaped

Summary(run) ==
    [id |-> run.id,
     ckpt |-> run.req.use_stable_diffusion_model,
     vae |-> run.req.use_vae_model,
     full |-> run.req.use_full_precision,
     faulted |-> run.faulted,
     outcome |-> run.outcome]

TypeOK ==
    /\ pc \in {"idle", "conditioning", "step", "yielded", "decode", "save", "filter",
               "respond"}
    /\ init_result \in {"not_called", "returned", "NameError", "EnvironmentError"}
    /\ thread_data.precision \in {"full", "autocast"}
    /\ cur.outcome \in {"none", "running", "success", "failed", "escaped"}

\* the exception e leaves do_mk_img: mk_img's except clause runs
RaiseInto(td, run) ==
    LET h == mk_img_except(td) IN
    /\ thread_data' = h.td
    /\ cur' = [run EXCEPT !.outcome = h.outcome]
    /\ pc' = "idle"

DeviceInit(sel) ==
    /\ init_result = "not_called"
    /\ LET r == device_init(torch_cuda, sel) IN
       /\ thread_data' = r.td
       /\ init_result' = r.result
    /\ init_selection' = sel
    /\ UNCHANGED <<entry_flag, poll, filter_call, torch_cuda, pc, cur, prev, x_samples, res_images>>

\* mk_img is called: do_mk_img lines 481-516
Enter(req, fault) ==
    /\ pc = "idle"
    /\ init_result = "returned"
    /\ cur.id < MaxRequests
    /\ LET p == prepare(thread_data, req, fault)
           run == [NewRun(cur.id + 1, req) EXCEPT
                      !.reloads = p.reloads,
                      !.faulted = (p.exc = "RuntimeError"),
                      !.exc = p.exc,
                      !.before = Snapshot(thread_data)]
       IN /\ fault # "none" => p.exc = "RuntimeError"
          /\ prev' = Summary(cur)
          /\ x_samples' = NoneLatent
          /\ res_images' = <<>>
          /\ IF p.exc = "None"
             THEN /\ thread_data' = p.td
                  /\ cur' = run
                  /\ pc' = "conditioning"
             ELSE RaiseInto(p.td, run)
    /\ UNCHANGED <<poll, filter_call, torch_cuda, init_selection, init_result>>

Start(req, fault) ==
    /\ Enter(req, fault)
    /\ UNCHANGED entry_flag

\* the same call, with the flag the worker held when it was made written down
StartObserved(req, fault) ==
    /\ Enter(req, fault)
    /\ entry_flag' = thread_data.stop_processing

\* lines 624-627: after the handler returned, take the recorded latent if any
take_partial(td, xs) ==
    IF td.partial_x_samples.kind = "absent" THEN [td |-> td, xs |-> xs]
    ELSE [td |-> [td EXCEPT !.partial_x_samples = NoAttr],
          xs |-> IF td.partial_x_samples.kind = "None" THEN xs
                 ELSE td.partial_x_samples]

\* int(req.prompt_strength * req.num_inference_steps), line 573: int()
\* truncates towards zero
t_enc(req) ==
    LET x == req.prompt_strength * req.num_inference_steps IN
    IF x >= 0 THEN x \div StrengthUnit ELSE 0 - ((0 - x) \div StrengthUnit)

\* line 611
n_steps(req) == IF req.init_image THEN t_enc(req) ELSE req.num_inference_steps

\* lines 542-573: the init image is encoded by modelFS, which goes to the
\* device and back, and only then the strength is asserted
img2img_prepare(td, req) ==
    IF ~req.init_image THEN Ok(td)
    ELSE IF td.modelFS = NoHandle THEN Exc("AttributeError", td)
    ELSE LET td1 == [td EXCEPT !.loc_FS = Place(td, "device")]
             td2 == wait_model_move_to(td1, "loc_FS")
         IN IF 0 <= req.prompt_strength /\ req.prompt_strength <= StrengthUnit
            THEN Ok(td2)
            ELSE Exc("AssertionError", td2)

\* lines 588-590: uc stays None when the guidance scale is 1.0
unconditional(req) ==
    IF req.guidance_scale # "1.0" THEN "tensor" ELSE "None"

\* lines 595-597: a prompt of more than one sub-prompt starts its blend from
\* torch.zeros_like(uc), a TypeError when uc is None
zeros_like_raises(req) ==
    req.subprompts > 1 /\ unconditional(req) = "None"

\* lines 587-609: modelCS goes to the device for the conditioning, then
\* modelFS goes to the device for the decoding
conditioning(td, req) ==
    IF td.modelCS = NoHandle THEN Exc("AttributeError", td)
    ELSE LET td1 == IF td.reduced_memory
                    THEN [td EXCEPT !.loc_CS = Place(td, "device")] ELSE td
         IN IF zeros_like_raises(req) THEN Exc("TypeError", td1)
            ELSE IF td.modelFS = NoHandle THEN Exc("AttributeError", td1)
            ELSE Ok(IF td.reduced_memory
                    THEN [td1 EXCEPT !.loc_FS = Place(td, "device")] ELSE td1)

\* lines 542-627: the img2img preparation, the conditioning, the progress
\* generator and the handler call
Conditioning ==
    /\ pc = "conditioning"
    /\ LET a == img2img_prepare(thread_data, cur.req)
           c == IF a.exc = "None" THEN conditioning(a.td, cur.req) ELSE a
           reached == a.exc = "None" /\ a.td.modelCS # NoHandle
           seen == IF reached THEN [cur EXCEPT !.uc = unconditional(cur.req)] ELSE cur
           run == [seen EXCEPT !.total_steps = n_steps(cur.req)]
       IN IF c.exc # "None"
          THEN /\ RaiseInto(c.td, [seen EXCEPT !.exc = c.exc])
               /\ UNCHANGED x_samples
          ELSE IF cur.req.stream_progress_updates /\ n_steps(cur.req) > 0
          THEN /\ thread_data' = [c.td EXCEPT !.partial_x_samples = NoneLatent]
               /\ x_samples' = Generator
               /\ pc' = "step"
               /\ cur' = run
          ELSE LET td1 == IF cur.req.stream_progress_updates
                          THEN [c.td EXCEPT !.partial_x_samples = NoneLatent]
                          ELSE c.td
                   t == take_partial(td1, Generator)
               IN /\ thread_data' = t.td
                  /\ x_samples' = t.xs
                  /\ pc' = "decode"
                  /\ cur' = run
    /\ UNCHANGED <<entry_flag, poll, filter_call, torch_cuda, init_selection, init_result, prev, res_images>>

\* lines 433-450: one preview for every output of the request
update_temp_img(td, req) ==
    [td EXCEPT !.temp_images =
        @ \cup { <<req.session_id, i>> : i \in 0..(req.num_outputs - 1) }]

\* one denoising step and its img_callback up to the yield (lines 463-474)
SampleStep ==
    /\ pc = "step"
    /\ LET td1 == IF cur.steps_run = 0 /\ ~cur.req.init_image
                  THEN wait_model_move_to(thread_data, "loc_CS")   \* _txt2img, line 742
                  ELSE thread_data
           td2 == [td1 EXCEPT !.partial_x_samples = Latent(cur.id, cur.steps_run)]
       IN thread_data' = IF cur.req.stream_image_progress
                            /\ cur.steps_run % PreviewEvery = 0        \* line 471
                         THEN update_temp_img(td2, cur.req)
                         ELSE td2
    /\ cur' = [cur EXCEPT !.steps_run = @ + 1, !.events = @ + 1]
    /\ pc' = "yielded"
    /\ UNCHANGED <<entry_flag, poll, filter_call, torch_cuda, init_selection, init_result, prev, x_samples, res_images>>

\* the mutant: the callback never looks at the flag
callback_never_raises(td) == FALSE

\* img_callback lines 476-477: the flag is set
callback_raises(td) == td.stop_processing

\* the generator is resumed after a progress event: lines 476-477, then
\* the next step, the end of sampling (624-627) or UserInitiatedStop (628-635)
Resume ==
    /\ pc = "yielded"
    /\ IF callback_raises(thread_data)
       THEN IF thread_data.partial_x_samples.kind = "absent"
            THEN /\ pc' = "respond"
                 /\ UNCHANGED <<thread_data, x_samples>>
                 /\ cur' = [cur EXCEPT !.abort_step = cur.steps_run - 1]
            ELSE IF thread_data.partial_x_samples.kind = "None"
            THEN /\ pc' = "respond"
                 /\ thread_data' = [thread_data EXCEPT !.partial_x_samples = NoAttr]
                 /\ UNCHANGED x_samples
                 /\ cur' = [cur EXCEPT !.abort_step = cur.steps_run - 1]
            ELSE /\ pc' = "decode"
                 /\ x_samples' = thread_data.partial_x_samples
                 /\ thread_data' = [thread_data EXCEPT !.partial_x_samples = NoAttr]
                 /\ cur' = [cur EXCEPT !.abort_step = cur.steps_run - 1]
       ELSE IF cur.steps_run < n_steps(cur.req)
       THEN /\ pc' = "step"
            /\ UNCHANGED <<thread_data, x_samples, cur>>
       ELSE LET t == take_partial(thread_data, x_samples) IN
            /\ thread_data' = t.td
            /\ x_samples' = t.xs
            /\ pc' = "decode"
            /\ UNCHANGED cur
    /\ UNCHANGED <<entry_flag, poll, filter_call, torch_cuda, init_selection, init_result, prev, res_images>>

\* lines 637-649: x_samples[i] of a generator object is a TypeError
Decode ==
    /\ pc = "decode"
    /\ IF x_samples.kind # "latent"
       THEN RaiseInto(thread_data, [cur EXCEPT !.exc = "TypeError"])
       ELSE /\ cur' = [cur EXCEPT !.decoded = cur.req.num_outputs]
            /\ pc' = "save"
            /\ thread_data' = IF thread_data.reduced_memory
                              THEN wait_model_move_to(thread_data, "loc_FS")
                              ELSE thread_data
    /\ UNCHANGED <<entry_flag, poll, filter_call, torch_cuda, init_selection, init_result, prev, x_samples, res_images>>

\* ResponseImage(data=..., seed=opt_seed), lines 674 and 692
Image(i, latent, filtered, opt_seed) ==
    [elem |-> i, latent |-> latent, filtered |-> filtered, seed |-> opt_seed]

\* the mutant: every batch element keeps the seed of the request
next_seed_unchanged(opt_seed) == opt_seed

\* line 700
next_seed(opt_seed) == opt_seed + 1

\* lines 657-658
has_filters(req) == req.use_face_correction # "None" \/ req.use_upscale # "None"

\* the mutant: the cancellation flag does not bring the original image back
return_orig_img_ignores_stop(td, req) ==
    ~has_filters(req) \/ ~req.show_only_filtered_image

\* lines 660-663
return_orig_img(td, req) ==
    (~has_filters(req) \/ ~req.show_only_filtered_image) \/ td.stop_processing

\* a file written under save_to_disk_path
File(kind, i) == [kind |-> kind, elem |-> i]

\* the mutant: nothing is written before the filters of the element have run
orig_files_deferred(td, req, i) == <<>>

\* lines 665-670: the files written for batch element i before its filters run
orig_files(td, req, i) ==
    IF ~req.save_to_disk_path THEN <<>>
    ELSE IF return_orig_img(td, req) THEN <<File("image", i), File("metadata", i)>>
    ELSE <<File("metadata", i)>>

\* lines 653-681: the first half of a round of the save loop, for batch
\* element cur.saved: the original image is saved and appended
SaveImage ==
    /\ pc = "save"
    /\ LET i == cur.saved IN
       /\ res_images' = IF return_orig_img(thread_data, cur.req)
                        THEN Append(res_images, Image(i, x_samples, FALSE, cur.opt_seed))
                        ELSE res_images
       /\ cur' = [cur EXCEPT !.saved = @ + 1,
                             !.files = @ \o orig_files(thread_data, cur.req, i),
                             !.opt_seed = IF has_filters(cur.req) /\ ~thread_data.stop_processing
                                          THEN @ ELSE next_seed(@)]
       /\ pc' = IF has_filters(cur.req) /\ ~thread_data.stop_processing THEN "filter"
                ELSE IF i + 1 < cur.req.num_outputs THEN "save" ELSE "respond"
    /\ UNCHANGED <<entry_flag, poll, filter_call, torch_cuda, init_selection, init_result, prev, x_samples, thread_data>>

\* lines 682-698: the second half, the filters of batch element cur.saved - 1
FilterImage ==
    /\ pc = "filter"
    /\ LET i == cur.saved - 1
           g == IF cur.req.use_face_correction # "None"
                THEN apply_filters(thread_data, "gfpgan", cur.req.use_face_correction)
                ELSE Applied(Ok(thread_data), 0)
           r == IF g.exc = "None" /\ cur.req.use_upscale # "None"
                THEN apply_filters(g.td, "real_esrgan", cur.req.use_upscale)
                ELSE g
       IN IF r.exc # "None"
          THEN /\ RaiseInto(r.td, [cur EXCEPT !.exc = r.exc])
               /\ UNCHANGED res_images
          ELSE /\ thread_data' = r.td
               /\ res_images' = Append(res_images, Image(i, x_samples, TRUE, cur.opt_seed))
               /\ cur' = [cur EXCEPT
                             !.filtered = @ + 1,
                             !.opt_seed = next_seed(@),
                             !.files = IF cur.req.save_to_disk_path
                                       THEN Append(@, File("filtered", i)) ELSE @]
               /\ pc' = IF i + 1 < cur.req.num_outputs THEN "save" ELSE "respond"
    /\ UNCHANGED <<entry_flag, poll, filter_call, torch_cuda, init_selection, init_result, prev, x_samples>>

\* lines 702-710: the response is yielded
Respond ==
    /\ pc = "respond"
    /\ thread_data' = IF thread_data.reduced_memory /\ cur.decoded > 0
                      THEN unload_filters(thread_data) ELSE thread_data
    /\ cur' = [cur EXCEPT !.outcome = "success"]
    /\ pc' = "idle"
    /\ UNCHANGED <<entry_flag, poll, filter_call, torch_cuda, init_selection, init_result, prev, x_samples, res_images>>

\* torch raises during conditioning, a sampling step or decoding
Fault ==
    /\ pc \in {"conditioning", "step", "decode"}
    /\ RaiseInto(thread_data, [cur EXCEPT !.faulted = TRUE, !.exc = "RuntimeError"])
    /\ UNCHANGED <<entry_flag, poll, filter_call, torch_cuda, init_selection, init_result, prev, x_samples, res_images>>

\* the owner of the worker sets thread_data.stop_processing
Cancel ==
    /\ init_result = "returned"
    /\ ~thread_data.stop_processing
    /\ pc # "filter"       \* the flag is read at line 681 and not again for this element
    /\ thread_data' = [thread_data EXCEPT !.stop_processing = TRUE]
    /\ cur' = IF pc = "idle" THEN cur ELSE [cur EXCEPT !.cancel_events = cur.events]
    /\ UNCHANGED <<entry_flag, poll, filter_call, torch_cuda, init_selection, init_result, pc, prev, x_samples, res_images>>

\* one accelerator with enough memory, of a plain or of a 16xx model
OneGpu ==
    { hw \in HardwareWith(1) :
        hw.is_available => /\ hw.mem_free[1] = MaxMemFree
                           /\ hw.mem_total[1] = MinVramGB }

InitWith(hardware) ==
    /\ torch_cuda \in hardware
    /\ thread_data = FreshThreadData
    /\ init_selection = [kind |-> "None", n |-> 0]
    /\ init_result = "not_called"
    /\ pc = "idle"
    /\ cur = [NewRun(0, NoRequest) EXCEPT !.outcome = "none"]
    /\ prev = Summary([NewRun(0, NoRequest) EXCEPT !.outcome = "none"])
    /\ x_samples = NoneLatent
    /\ res_images = <<>>
    /\ filter_call = NoFilterCall
    /\ entry_flag = FALSE
    /\ poll = NoPoll

\* the steps of the generator mk_img and of its consumer
Running ==
    \/ Conditioning
    \/ SampleStep
    \/ Resume
    \/ Decode
    \/ SaveImage
    \/ FilterImage
    \/ Respond
    \/ Fault
    \/ Cancel

Pipeline(reqs) ==
    \/ \E req \in reqs, fault \in LoadFaults : Start(req, fault)
    \/ Running

AutoSelector == { sel \in Selectors : sel.kind = "auto" }

\* a worker on the CPU or on the one accelerator, serving requests that
\* exercise the model cache
Init == InitWith(OneGpu)
Next == (\E sel \in AutoSelector : DeviceInit(sel)) \/ Pipeline(CacheRequests)
Spec == Init /\ [][Next]_vars

\* the same worker serving requests that exercise sampling and saving
NextSampling == (\E sel \in AutoSelector : DeviceInit(sel)) \/ Pipeline(SamplingRequests)
SpecSampling == Init /\ [][NextSampling]_vars

\* the same worker serving text-to-image and image-to-image requests
NextImg2Img == (\E sel \in AutoSelector : DeviceInit(sel)) \/ Pipeline(Img2ImgRequests)
SpecImg2Img == Init /\ [][NextImg2Img]_vars

\* the same worker serving requests with previews; what the flag was at
\* every call of mk_img is written down
NextPreview ==
    \/ \E sel \in AutoSelector : DeviceInit(sel)
    \/ \E req \in PreviewRequests, fault \in LoadFaults : StartObserved(req, fault)
    \/ Running
SpecPreview == Init /\ [][NextPreview]_vars

\* the same worker serving requests with and without guidance
NextGuidance == (\E sel \in AutoSelector : DeviceInit(sel)) \/ Pipeline(GuidanceRequests)
SpecGuidance == Init /\ [][NextGuidance]_vars

\* requests that differ in their filters and in whether files are written
FilterRequests ==
    WithUpscaleAndDisk(
        RequestsOver({"A"}, {"None"}, {FALSE}, {TRUE}, 1..MaxOutputs, {1}, FilterChoices),
        {"None", "RealESRGAN_x4plus"}, BOOLEAN)

\* the same worker serving requests with filters
NextFilters == (\E sel \in AutoSelector : DeviceInit(sel)) \/ Pipeline(FilterRequests)
SpecFilters == Init /\ [][NextFilters]_vars

\* requests that differ in their seed, their batch size and their filters
SeedRequests ==
    WithSeed(RequestsOver({"A"}, {"None"}, {FALSE}, {TRUE}, 1..MaxOutputs, {1},
                          FilterChoices),
             0..MaxSeed)

\* the same worker serving requests with seeds
NextSeeds == (\E sel \in AutoSelector : DeviceInit(sel)) \/ Pipeline(SeedRequests)
SpecSeeds == Init /\ [][NextSeeds]_vars

\* two accelerators with enough memory
TwoGpus ==
    { hw \in HardwareWith(2) :
        /\ hw.device_count = 2
        /\ \A d \in 1..2 : /\ hw.mem_total[d] = MinVramGB
                            /\ hw.mem_free[d] = MaxMemFree
                            /\ ~hw.is16xx[d] }

\* a worker on the CPU, on the first or on the second accelerator, whose
\* owner applies and unloads the filters directly
InitFilterApi == InitWith(TwoGpus)
NextFilterApi ==
    \/ \E sel \in Selectors : DeviceInit(sel)
    \/ \E filter_name \in {"gfpgan", "real_esrgan"} :
          \E model_path \in FilterPaths(filter_name) : ApplyFilters(filter_name, model_path)
    \/ UnloadFilters
SpecFilterApi == InitFilterApi /\ [][NextFilterApi]_vars

\* a worker on the CPU or on one of two accelerators whose owner moves a
\* model: the target is the CPU, as in every call of the source, or the
\* worker's own device
MoveTargets == {CpuDevice, thread_data.device}
NextWait ==
    \/ \E sel \in Selectors : DeviceInit(sel)
    \/ \E target \in MoveTargets, mem \in Readings : WaitBegin(target, mem)
    \/ \E mem \in Readings : WaitPoll(mem)
SpecWait == InitFilterApi /\ [][NextWait]_vars
\* the loop is not suspended for ever: time.sleep returns
SpecWaitFair == SpecWait /\ WF_vars(\E mem \in Readings : WaitPoll(mem))

\* device_init on every machine, with every selector
InitDevice == InitWith(HardwareWith(MaxDevices))
NextDevice == \E sel \in Selectors : DeviceInit(sel)
SpecDevice == InitDevice /\ [][NextDevice]_vars

\* ------------------------------------------------------------------ claims
\* the request cur has ended: its last item was yielded or its exception escaped
Finished == pc = "idle" /\ cur.outcome \in {"success", "failed", "escaped"}

\* cur asks for the VAE and the precision the request before it asked for
SameVaeAndPrecision ==
    /\ prev.vae = cur.req.use_vae_model
    /\ prev.full = cur.req.use_full_precision

\* C1: with the same VAE and precision flag and no failure, a request for a
\* checkpoint other than the one the previous successful request named performs
\* exactly one reload, the first request of a worker performs exactly one, and
\* a request for the checkpoint the previous successful request named performs none.
C1_ReloadPerIdentity ==
    (Finished /\ cur.outcome = "success") =>
        /\ prev.outcome = "none" => cur.reloads = 1
        /\ (prev.outcome = "success" /\ SameVaeAndPrecision) =>
              cur.reloads = IF prev.ckpt = cur.req.use_stable_diffusion_model
                            THEN 0 ELSE 1

\* a request for B has succeeded right after a successful request for A
C1_Witness ==
    /\ Finished /\ cur.outcome = "success" /\ prev.outcome = "success"
    /\ SameVaeAndPrecision
    /\ prev.ckpt = "A" /\ cur.req.use_stable_diffusion_model = "B"
    /\ cur.reloads = 1

\* C2: every invocation of mk_img ends by yielding a terminal record, the
\* success response or a 'failed' record; no exception escapes mk_img.
C2_TerminalRecordYielded ==
    pc = "idle" => cur.outcome # "escaped"

\* C3: after a request that ended in failure, a request that names an existing
\* checkpoint and meets no new fault yields a success response.
C3_UsableAfterFailure ==
    ( /\ Finished
      /\ prev.outcome \in {"failed", "escaped"}
      /\ cur.req.use_stable_diffusion_model \in ExistingCkpts
      /\ ~cur.faulted )
    => cur.outcome = "success"

\* C4: a streaming request whose callback for step k observed the cancellation
\* flag is not reported as failed, and its result holds exactly one image per
\* batch element, each decoded from the latent recorded at step k and unfiltered.
C4_CancelledResult ==
    ( /\ Finished
      /\ cur.req.stream_progress_updates
      /\ cur.abort_step >= 0
      /\ ~cur.faulted )
    => /\ cur.outcome = "success"
       /\ Len(res_images) = cur.req.num_outputs
       /\ \A j \in 1..Len(res_images) :
             res_images[j] = Image(j - 1, Latent(cur.id, cur.abort_step), FALSE,
                                    cur.req.seed + j - 1)

\* a request for two filtered-only images was cancelled at its second step
C4_Witness ==
    /\ Finished /\ cur.outcome = "success"
    /\ cur.abort_step = 1
    /\ cur.req.num_outputs = 2
    /\ cur.req.use_face_correction # "None" /\ cur.req.show_only_filtered_image
    /\ Len(res_images) = 2

\* C5: a streaming request (on a worker whose earlier request, if any, succeeded)
\* whose cancellation flag was set before its first per-step callback ran
\* yields a success response with an empty image list.
C5_CancelBeforeFirstCallback ==
    ( /\ Finished
      /\ prev.outcome \in {"none", "success"}
      /\ cur.req.stream_progress_updates
      /\ cur.cancel_events = 0
      /\ ~cur.faulted )
    => /\ cur.outcome = "success"
       /\ res_images = <<>>

\* C6: sampling is left only at a callback boundary: a step that has begun is
\* completed and its callback run even when the flag is already set; once a
\* callback has completed with the flag set, the request runs no further step
\* and emits no further progress event.
C6_CooperativeCancel ==
    [][ /\ (pc = "step" /\ pc' # "step" /\ ~cur'.faulted) =>
              (pc' = "yielded" /\ cur'.steps_run = cur.steps_run + 1)
        /\ (pc = "yielded" /\ thread_data.stop_processing) =>
              (pc' \notin {"step"} /\ cur'.steps_run = cur.steps_run
                                   /\ cur'.events = cur.events)
        /\ (cur'.id = cur.id /\ pc # "step") =>
              (cur'.steps_run = cur.steps_run /\ cur'.events = cur.events)
        /\ (pc' = "step" /\ pc # "step") =>
              (pc = "conditioning" \/ (pc = "yielded" /\ ~thread_data.stop_processing))
      ]_vars

\* the flag was set while the first of two steps was running; the step was
\* completed, its callback raised, and the request went on to decoding
C6_Witness ==
    /\ pc = "decode"
    /\ cur.req.num_inference_steps = 2
    /\ cur.cancel_events = 0
    /\ cur.abort_step = 0 /\ cur.steps_run = 1 /\ cur.events = 1

\* C7: the first request of a fresh worker, text-to-image without filters, when
\* neither cancelled nor hit by a fault, performs one reload, runs its N steps,
\* decodes num_outputs images and yields a success response with num_outputs images.
C7_FirstRequestEndToEnd ==
    ( /\ Finished
      /\ cur.id = 1
      /\ ~has_filters(cur.req)
      /\ cur.cancel_events = -1
      /\ ~cur.faulted )
    => /\ cur.outcome = "success"
       /\ cur.reloads = 1
       /\ cur.steps_run = cur.req.num_inference_steps
       /\ cur.decoded = cur.req.num_outputs
       /\ Len(res_images) = cur.req.num_outputs

\* C8: at every request boundary the three model handles are all unset, or all
\* set and all loaded from the active checkpoint identity.
C8_HandlesAllOrNone ==
    pc = "idle" =>
        \/ /\ thread_data.model = NoHandle
           /\ thread_data.modelCS = NoHandle
           /\ thread_data.modelFS = NoHandle
        \/ /\ thread_data.model # NoHandle
           /\ thread_data.modelCS # NoHandle
           /\ thread_data.modelFS # NoHandle
           /\ thread_data.model.ckpt = thread_data.ckpt_file
           /\ thread_data.modelCS.ckpt = thread_data.ckpt_file
           /\ thread_data.modelFS.ckpt = thread_data.ckpt_file

\* every accelerator of the machine passes device_would_fail
AllDevicesValid(hw) ==
    \A d \in 0..(hw.device_count - 1) : device_would_fail(hw, IntDevice(d)) = "None"

\* C9: 'auto' on a machine with several accelerators that all pass validation
\* binds the worker to an accelerator with the most free memory.
C9_AutoBindsMostFree ==
    ( /\ init_result = "returned"
      /\ init_selection.kind = "auto"
      /\ torch_cuda.is_available /\ torch_cuda.device_count > 1
      /\ AllDevicesValid(torch_cuda) )
    => /\ thread_data.device.kind = "int"
       /\ DeviceExists(torch_cuda, thread_data.device.n)
       /\ \A d \in 1..torch_cuda.device_count :
             torch_cuda.mem_free[d] <= torch_cuda.mem_free[thread_data.device.n + 1]

\* C10: an explicit selector naming an accelerator that does not exist, on a
\* machine with accelerators, makes device_init raise the naming error with no
\* device bound and every model handle unset.
C10_MissingDeviceRaises ==
    ( /\ init_result # "not_called"
      /\ init_selection.kind \in {"gpu:", "cuda:"}
      /\ torch_cuda.is_available
      /\ ~DeviceExists(torch_cuda, init_selection.n) )
    => /\ init_result = "NameError"
       /\ thread_data.device = NoDevice
       /\ thread_data.model = NoHandle
       /\ thread_data.modelCS = NoHandle
       /\ thread_data.modelFS = NoHandle
       /\ thread_data.model_gfpgan = "None"

\* device_init was called with 'gpu:N' on a machine with fewer accelerators
C10_Witness ==
    /\ init_result = "NameError"
    /\ init_selection.kind = "gpu:"
    /\ torch_cuda.device_count >= 2
    /\ init_selection.n >= torch_cuda.device_count

\* C11: on a machine without any accelerator device_init binds the CPU for
\* the selectors 'cpu', 'auto' and 'current'; for every other selector it
\* raises the environment error and leaves no device bound.
C11_NoAcceleratorAtAll ==
    (init_result # "not_called" /\ ~torch_cuda.is_available) =>
        IF init_selection.kind \in {"cpu", "auto", "current"}
        THEN init_result = "returned" /\ thread_data.device = CpuDevice
        ELSE init_result = "EnvironmentError" /\ thread_data.device = NoDevice

\* device_init was called with 'cuda:0' on a machine without CUDA and raised
C11_Witness ==
    /\ ~torch_cuda.is_available
    /\ init_selection = [kind |-> "cuda:", n |-> 0]
    /\ init_result = "EnvironmentError"
    /\ thread_data.device = NoDevice

\* the device the worker is bound to is the CPU or an existing accelerator
\* with at least 3 GB
BoundToUsableDevice ==
    \/ thread_data.device = CpuDevice
    \/ /\ thread_data.device.kind \in {"int", "cuda:"}
       /\ DeviceExists(torch_cuda, thread_data.device.n)
       /\ torch_cuda.mem_total[thread_data.device.n + 1] >= MinVramGB

\* the selector names an existing accelerator with less than 3 GB
NamesSmallDevice ==
    /\ init_selection.kind \in {"gpu:", "cuda:"}
    /\ DeviceExists(torch_cuda, init_selection.n)
    /\ torch_cuda.mem_total[init_selection.n + 1] < MinVramGB

\* C12: an explicit selector naming an existing accelerator with less than
\* 3 GB never makes device_init raise, it returns bound to another, usable
\* device; and whenever device_init returns, for any selector, the bound device
\* is the CPU or an existing accelerator with at least 3 GB.
C12_SmallDeviceFallsBack ==
    /\ (init_result # "not_called" /\ NamesSmallDevice) =>
          /\ init_result = "returned"
          /\ thread_data.device.n # init_selection.n \/ thread_data.device = CpuDevice
    /\ init_result = "returned" => BoundToUsableDevice

\* 'gpu:1' named a 2 GB accelerator and the worker was bound to device 0
C12_Witness ==
    /\ init_result = "returned"
    /\ init_selection = [kind |-> "gpu:", n |-> 1]
    /\ NamesSmallDevice
    /\ thread_data.device = IntDevice(0)

\* C13: on a worker with force_full_precision set the precision mode is 'full'
\* in every reachable state and neither half flag is ever set, whatever
\* requests the worker serves.
C13_ForcedFullPrecision ==
    thread_data.force_full_precision =>
        /\ thread_data.precision = "full"
        /\ ~thread_data.model_is_half
        /\ ~thread_data.model_fs_is_half

\* a forced worker served a request with use_full_precision set and then,
\* with its models loaded, one without it
C13_Witness ==
    /\ thread_data.force_full_precision
    /\ Finished /\ cur.outcome = "success" /\ prev.outcome = "success"
    /\ prev.full /\ ~cur.req.use_full_precision
    /\ thread_data.model # NoHandle

\* C20: a request naming a checkpoint file that does not exist fails with the
\* checkpoint-not-found error before anything is unloaded or loaded: no reload,
\* no step, and the active checkpoint, VAE, precision and model are those of
\* before the request.
C20_MissingCheckpointTouchesNothing ==
    (cur.id >= 1 /\ cur.req.use_stable_diffusion_model \notin ExistingCkpts) =>
        /\ Finished /\ cur.outcome # "success"
        /\ cur.exc = "FileNotFoundError"
        /\ cur.reloads = 0 /\ cur.steps_run = 0
        /\ Snapshot(thread_data) = cur.before

\* a worker that holds checkpoint A was asked for a missing checkpoint
C20_Witness ==
    /\ Finished /\ cur.outcome = "failed"
    /\ cur.req.use_stable_diffusion_model \notin ExistingCkpts
    /\ prev.outcome = "success" /\ prev.ckpt = "A"
    /\ thread_data.ckpt_file = "A" /\ thread_data.model = Handle("A", "None")

\* the worker runs on an accelerator in reduced-memory mode
ReducedOnAccelerator ==
    thread_data.reduced_memory /\ thread_data.device.kind \in {"int", "cuda:"}

\* C14: on a reduced-memory accelerator worker the conditioner and the
\* autoencoder are in host memory whenever no request is in progress: after
\* every request that ended, text-to-image or image-to-image, in success,
\* cancellation or failure.
C14_HostResidentBetweenRequests ==
    ( /\ Finished
      /\ ReducedOnAccelerator
      /\ thread_data.modelCS # NoHandle /\ thread_data.modelFS # NoHandle )
    => /\ thread_data.loc_CS = "cpu"
       /\ thread_data.loc_FS = "cpu"

\* C15: on a reduced-memory accelerator worker both stages of the denoiser
\* are on the accelerator in every state in which the model is loaded, so also
\* when a request served from the cache starts sampling after a failed request.
C15_DenoiserStaysResident ==
    (ReducedOnAccelerator /\ thread_data.model # NoHandle) =>
        /\ thread_data.loc_model1 = "device"
        /\ thread_data.loc_model2 = "device"

\* t is the floor of prompt_strength * num_inference_steps
IsFloorOfProduct(t, req) ==
    /\ t * StrengthUnit <= req.prompt_strength * req.num_inference_steps
    /\ req.prompt_strength * req.num_inference_steps < (t + 1) * StrengthUnit

\* C19: an image-to-image request with S steps and strength p in [0, 1] (on a
\* worker whose earlier request, if any, succeeded, with no fault and no
\* cancellation) reports total_steps = floor(p * S), which lies in 0..S, is 0
\* for p = 0 and S for p = 1, and runs exactly that many denoising steps; with
\* p outside [0, 1] the request fails without any sampling step.
C19_Img2ImgSteps ==
    ( /\ Finished
      /\ cur.req.init_image
      /\ prev.outcome \in {"none", "success"}
      /\ ~cur.faulted /\ cur.cancel_events = -1 )
    => IF 0 <= cur.req.prompt_strength /\ cur.req.prompt_strength <= StrengthUnit
       THEN /\ IsFloorOfProduct(cur.total_steps, cur.req)
            /\ 0 <= cur.total_steps /\ cur.total_steps <= cur.req.num_inference_steps
            /\ cur.req.prompt_strength = 0 => cur.total_steps = 0
            /\ cur.req.prompt_strength = StrengthUnit =>
                  cur.total_steps = cur.req.num_inference_steps
            /\ cur.steps_run = cur.total_steps
       ELSE /\ cur.outcome \in {"failed", "escaped"}
            /\ cur.steps_run = 0 /\ cur.events = 0

\* the same holds of the requests that stream their progress
Img2ImgStepsWhenStreaming ==
    cur.req.stream_progress_updates => C19_Img2ImgSteps

\* preparing, conditioning, sampling and decoding each finish for the whole
\* request before the next of them begins, and the save loop starts after them
PhasesUpToDecoding ==
    /\ pc \in {"conditioning", "step", "yielded", "decode"} =>
          /\ cur.decoded = 0 /\ cur.saved = 0 /\ cur.filtered = 0
          /\ cur.files = <<>> /\ res_images = <<>>
    /\ pc = "conditioning" =>
          cur.total_steps = -1 /\ cur.steps_run = 0 /\ cur.events = 0
    /\ pc \in {"save", "filter"} => cur.decoded = cur.req.num_outputs
    /\ (cur.saved > 0 \/ cur.filtered > 0 \/ cur.files # <<>>) =>
          cur.decoded = cur.req.num_outputs

\* C16 as amended: preparing, conditioning, sampling and decoding run in that
\* order, each finishing for the whole request before the next begins, and
\* nothing is saved or filtered before all images are decoded; filtering and
\* persisting are interleaved per batch element: the metadata file of an element
\* (and its original image when that is returned) is written before the
\* element's filters run, and its filtered image after them.
C16_PhasesThenPerElementSaving ==
    /\ PhasesUpToDecoding
    /\ cur.filtered <= cur.saved
    /\ pc = "filter" =>
          /\ cur.filtered = cur.saved - 1
          /\ cur.req.save_to_disk_path =>
                /\ cur.files # <<>>
                /\ File("metadata", cur.saved - 1) = cur.files[Len(cur.files)]
                /\ \A k \in 1..Len(cur.files) :
                      cur.files[k] # File("filtered", cur.saved - 1)
    /\ \A k \in 1..Len(cur.files) :
          cur.files[k].kind = "filtered" =>
              /\ cur.files[k].elem < cur.filtered
              /\ \E j \in 1..(k - 1) : cur.files[j] = File("metadata", cur.files[k].elem)

\* the second image of a request is about to be filtered; the files of the
\* first image, its filtered image included, were written before that
C16_Witness ==
    /\ pc = "filter" /\ cur.saved = 2 /\ cur.filtered = 1
    /\ cur.req.save_to_disk_path /\ ~cur.req.show_only_filtered_image
    /\ cur.files = <<File("image", 0), File("metadata", 0), File("filtered", 0),
                     File("image", 1), File("metadata", 1)>>

\* C16: the phases preparing, conditioning, sampling, decoding, filtering and
\* persisting run strictly in that order, each finishing for the whole request
\* before the next begins: no image or metadata file of the request is written
\* before the filtering of its images has finished.
C16_NothingPersistedBeforeFiltered ==
    /\ PhasesUpToDecoding
    /\ pc = "filter" => cur.files = <<>>
    /\ (cur.files # <<>> /\ has_filters(cur.req) /\ cur.cancel_events = -1) =>
          cur.filtered = cur.req.num_outputs

\* apply_filters was called for the given filter and the worker is not on the
\* first CUDA device
CalledOffPrimary(filter_name) ==
    /\ filter_call.filter_name = filter_name
    /\ ~is_first_cuda_device(thread_data.device)

\* C17 as amended: face restoration runs only on the first CUDA device: on the
\* CPU or another accelerator loading GFPGAN is rejected with an error and its
\* handle stays unset; the upscaler is not restricted: given an identity its
\* model loads on any device, in full precision on the CPU.
C17_OnlyGfpganNeedsPrimary ==
    /\ ~is_first_cuda_device(thread_data.device) => thread_data.model_gfpgan = "None"
    /\ CalledOffPrimary("gfpgan") =>
          /\ filter_call.exc \in {"Exception", "ValueError"}
          /\ filter_call.after.model_gfpgan = "None"
    /\ ( /\ filter_call.filter_name = "real_esrgan"
         /\ filter_call.after.real_esrgan_file # "None" )
       => /\ filter_call.exc = "None"
          /\ filter_call.after.model_real_esrgan =
                Upscaler(filter_call.after.real_esrgan_file,
                         thread_data.device # CpuDevice /\ thread_data.model_is_half)

\* the upscaler was loaded on a CPU worker and on the second accelerator
C17_Witness ==
    /\ filter_call.filter_name = "real_esrgan" /\ filter_call.loads = 1
    /\ filter_call.exc = "None"
    /\ thread_data.device = CpuDevice
    /\ filter_call.before.model_real_esrgan = NoUpscaler
    /\ thread_data.model_real_esrgan = Upscaler("RealESRGAN_x4plus", FALSE)

\* C17: each post-filter runs only on the primary accelerator: on the CPU or a
\* non-first accelerator loading either filter's model is rejected with an
\* error and its handle stays unset.
C17_BothFiltersNeedPrimary ==
    ~is_first_cuda_device(thread_data.device) =>
        /\ thread_data.model_gfpgan = "None"
        /\ thread_data.model_real_esrgan = NoUpscaler
        /\ filter_call.after.model_real_esrgan = NoUpscaler
        /\ filter_call.loads = 1 => filter_call.exc # "None"

\* the recorded identity and the handle of the filter the last call named,
\* in thread data td
RecordedFile(td) ==
    IF filter_call.filter_name = "gfpgan" THEN td.gfpgan_file ELSE td.real_esrgan_file
HandleFile(td) ==
    IF filter_call.filter_name = "gfpgan" THEN td.model_gfpgan
    ELSE td.model_real_esrgan.file

\* C18: apply_filters loads the named filter's model when the identity passed
\* differs from the recorded one, performs no load when the identities are
\* equal and the handle is present, loads again when the handle was released,
\* and fails with the handle unset when no identity is passed and none was
\* ever recorded.
C18_FilterCache ==
    LET c == filter_call
        differs == c.model_path # "None" /\ c.model_path # RecordedFile(c.before)
    IN c.filter_name # "None" =>
        /\ differs =>
              /\ c.loads = 1
              /\ RecordedFile(c.after) = c.model_path
              /\ c.exc = "None" => HandleFile(c.after) = c.model_path
        /\ (~differs /\ HandleFile(c.before) # "None") =>
              /\ c.loads = 0 /\ c.exc = "None"
              /\ c.after = c.before
        /\ (HandleFile(c.before) = "None" /\ RecordedFile(c.before) # "None") =>
              /\ c.loads = 1
              /\ c.exc = "None" => HandleFile(c.after) = RecordedFile(c.after)
        /\ (c.model_path = "None" /\ RecordedFile(c.before) = "None") =>
              /\ c.exc # "None"
              /\ HandleFile(c.after) = "None"

\* GFPGAN was loaded, released by unload_filters, and loaded again by a call
\* that passed the recorded identity
C18_Witness ==
    /\ filter_call.filter_name = "gfpgan" /\ filter_call.n >= 2
    /\ filter_call.model_path = filter_call.before.gfpgan_file
    /\ filter_call.before.model_gfpgan = "None"
    /\ filter_call.loads = 1 /\ filter_call.exc = "None"
    /\ filter_call.after.model_gfpgan = filter_call.model_path

\* the request cur names the checkpoint and VAE that were loaded when it
\* started, on an accelerator worker that is not forced to full precision
SameIdentitiesOnFreeAccelerator ==
    /\ cur.id >= 1
    /\ cur.before.model # NoHandle
    /\ cur.before.ckpt_file = cur.req.use_stable_diffusion_model
    /\ cur.before.vae_file = cur.req.use_vae_model
    /\ thread_data.device.kind \in {"int", "cuda:"}
    /\ ~thread_data.force_full_precision

\* C21: on an accelerator worker that is not forced to full precision, a
\* request (after a successful one) for the loaded checkpoint and VAE whose
\* use_full_precision flag disagrees with the loaded precision performs exactly
\* one reload and leaves the precision 'full' iff it asked for full precision;
\* one whose flag agrees with the loaded precision performs no reload.
C21_PrecisionFlagReload ==
    (SameIdentitiesOnFreeAccelerator /\ prev.outcome = "success") =>
        IF (cur.before.precision = "full") # cur.req.use_full_precision
        THEN /\ cur.reloads = 1
             /\ thread_data.precision =
                   IF cur.req.use_full_precision THEN "full" ELSE "autocast"
        ELSE /\ cur.reloads = 0
             /\ thread_data.precision = cur.before.precision

\* a request for full precision followed one that loaded the same models in
\* autocast precision, and reloaded them
C21_Witness ==
    /\ SameIdentitiesOnFreeAccelerator /\ prev.outcome = "success"
    /\ Finished /\ cur.outcome = "success"
    /\ cur.before.precision = "autocast" /\ cur.req.use_full_precision
    /\ cur.reloads = 1 /\ thread_data.precision = "full"
    /\ ~thread_data.model_is_half
\* load_model_ckpt ran in the request cur and returned
LoadedInThisRequest ==
    cur.reloads = 1 /\ (pc # "idle" \/ cur.outcome = "success")

\* C22: after every successful load_model_ckpt both half flags are set iff
\* the device is not the CPU and the precision is 'autocast'; on a CPU worker
\* the precision is 'full' and the models are not half after every load,
\* whatever use_full_precision the requests carry.
C22_HalfFlagsAfterLoad ==
    LoadedInThisRequest =>
        /\ thread_data.model_is_half =
              (thread_data.device # CpuDevice /\ thread_data.precision = "autocast")
        /\ thread_data.model_fs_is_half = thread_data.model_is_half
        /\ thread_data.device = CpuDevice =>
              /\ thread_data.precision = "full"
              /\ ~thread_data.model_is_half /\ ~thread_data.model_fs_is_half

\* an accelerator worker reloaded its models in autocast precision after it
\* had held them in full precision
C22_Witness ==
    /\ LoadedInThisRequest /\ prev.outcome = "success" /\ prev.full
    /\ thread_data.device = IntDevice(0)
    /\ thread_data.precision = "autocast"
    /\ thread_data.model_is_half /\ thread_data.model_fs_is_half
\* C23: after a request that ended in failure: with reduced_memory off the
\* three model handles and both filter handles are unset; with reduced_memory
\* on every model handle that is set has its conditioner, its autoencoder and
\* both stages of its denoiser in host memory.
C23_ReleasedAfterFailure ==
    (Finished /\ cur.outcome \in {"failed", "escaped"}) =>
        IF thread_data.reduced_memory
        THEN /\ thread_data.model # NoHandle =>
                   thread_data.loc_model1 = "cpu" /\ thread_data.loc_model2 = "cpu"
             /\ thread_data.modelCS # NoHandle => thread_data.loc_CS = "cpu"
             /\ thread_data.modelFS # NoHandle => thread_data.loc_FS = "cpu"
        ELSE /\ thread_data.model = NoHandle
             /\ thread_data.modelCS = NoHandle
             /\ thread_data.modelFS = NoHandle
             /\ thread_data.model_gfpgan = NoHandle
             /\ thread_data.model_real_esrgan = NoUpscaler
\* C26: the denoiser has run the request's step count when decoding begins,
\* with or without streaming: a request that was not cancelled reaches the
\* decoding with all its steps run and with the latents of that run.
C26_SamplingRunsBeforeDecoding ==
    (pc = "decode" /\ cur.cancel_events = -1) =>
        /\ cur.steps_run = cur.total_steps
        /\ cur.total_steps > 0 =>
              /\ x_samples.kind = "latent"
              /\ x_samples.req = cur.id
              /\ x_samples.step = cur.total_steps - 1

\* C27: every image of the result was decoded from latents recorded during
\* the request that returns it.
C27_ImagesFromOwnLatents ==
    \A j \in 1..Len(res_images) :
        /\ res_images[j].latent.kind = "latent"
        /\ res_images[j].latent.req = cur.id
\* the request reached line 588 with its models loaded
ReachedConditioning ==
    cur.id >= 1 /\ cur.uc # "unset" /\ thread_data.modelFS # NoHandle

\* C25: the unconditional conditioning is computed iff the guidance scale
\* differs from 1.0, and the conditioning of a request with guidance scale
\* 1.0 raises nothing, whether its prompt is one sub-prompt or a blend of several.
C25_GuidanceOneCompletesConditioning ==
    ReachedConditioning =>
        /\ (cur.uc = "tensor") = (cur.req.guidance_scale # "1.0")
        /\ (cur.req.guidance_scale = "1.0" /\ pc # "conditioning") => cur.total_steps >= 0

\* the first half of C25 alone
UnconditionalIffGuided ==
    ReachedConditioning => (cur.uc = "tensor") = (cur.req.guidance_scale # "1.0")
\* what a ResponseImage says of itself
Described(img) == [elem |-> img.elem, filtered |-> img.filtered, seed |-> img.seed]

\* the images of batch element i of req, when n elements have been filtered
ImagesOfElement(req, cancelled, i, n) ==
    (IF ~has_filters(req) \/ ~req.show_only_filtered_image \/ cancelled
     THEN <<[elem |-> i, filtered |-> FALSE, seed |-> req.seed + i]>> ELSE <<>>)
    \o (IF has_filters(req) /\ ~cancelled /\ i < n
        THEN <<[elem |-> i, filtered |-> TRUE, seed |-> req.seed + i]>> ELSE <<>>)

RECURSIVE ImagesOfElements(_, _, _, _)
\* the images of the batch elements 0 .. k-1
ImagesOfElements(req, cancelled, k, n) ==
    IF k = 0 THEN <<>>
    ELSE ImagesOfElements(req, cancelled, k - 1, n)
         \o ImagesOfElement(req, cancelled, k - 1, n)

\* the flag was set during the request, if at all, before the sampling ended:
\* the callback saw it and raised
FlagSetOnlyWhileSampling ==
    (cur.cancel_events >= 0) = (cur.abort_step >= 0)

\* C28: in and after the save loop the result holds, in the order of the
\* batch index, for every element handled so far its original image (when no
\* filter is selected, show_only_filtered_image is false or the request was
\* cancelled) followed by its filtered image (when a filter is selected and
\* the request was not cancelled), each with the seed req.seed + i; provided
\* the cancellation flag did not change after the sampling.
C28_ResultOrderAndSeeds ==
    ( /\ cur.id >= 1
      /\ pc \in {"save", "filter", "respond"} \/ (pc = "idle" /\ cur.saved > 0)
      /\ FlagSetOnlyWhileSampling )
    => \/ pc = "idle" /\ cur.outcome # "success"
       \/ /\ [j \in 1..Len(res_images) |-> Described(res_images[j])]
               = ImagesOfElements(cur.req, cur.abort_step >= 0, cur.saved, cur.filtered)
          /\ pc \in {"respond", "idle"} =>
                /\ cur.saved = cur.req.num_outputs
                /\ Len(res_images) >= cur.req.num_outputs

C28_Witness ==
    /\ Finished /\ cur.outcome = "success"
    /\ cur.req.num_outputs = 2
    /\ cur.req.seed = 1
    /\ has_filters(cur.req) /\ ~cur.req.show_only_filtered_image
    /\ cur.abort_step = -1 /\ ~thread_data.stop_processing
    /\ [j \in 1..Len(res_images) |-> Described(res_images[j])]
         = << [elem |-> 0, filtered |-> FALSE, seed |-> 1],
              [elem |-> 0, filtered |-> TRUE, seed |-> 1],
              [elem |-> 1, filtered |-> FALSE, seed |-> 2],
              [elem |-> 1, filtered |-> TRUE, seed |-> 2] >>
\* C24: every request begins by clearing the cancellation flag and emptying
\* the preview buffer, before the checkpoint is looked for: a request is
\* aborted only by a flag set while it ran, the flag is clear in a running
\* request for as long as nobody set it during that request, a request for a
\* missing checkpoint leaves the buffer empty, and every key of the preview
\* buffer has the session id of the current request and an index below its
\* num_outputs.
C24_FlagAndPreviewsReset ==
    /\ cur.abort_step >= 0 => cur.cancel_events >= 0
    /\ (pc # "idle" /\ cur.cancel_events = -1) => ~thread_data.stop_processing
    /\ cur.exc = "FileNotFoundError" => thread_data.temp_images = {}
    /\ \A key \in thread_data.temp_images :
          /\ key[1] = cur.req.session_id
          /\ key[2] \in 0..(cur.req.num_outputs - 1)

\* a request called with the flag set, after a request of another session had
\* left two previews, ran all its steps and ended with its own single preview
C24_Witness ==
    /\ Finished /\ cur.outcome = "success" /\ cur.id = 2
    /\ entry_flag
    /\ cur.abort_step = -1 /\ cur.steps_run = cur.req.num_inference_steps
    /\ cur.req.session_id = "s2" /\ cur.req.num_outputs = 1
    /\ thread_data.temp_images = {<<"s2", 0>>}
    /\ prev.outcome = "success"

\* C29: wait_model_move_to terminates whatever the readings are: a call that
\* polls returns; the loop takes another round only after a reading that is
\* positive and strictly below the reading before it; and the call returns
\* without moving the model and without a reading of the loop when the target
\* is the worker's device or the first reading is zero.
C29_WaitTerminates ==
    /\ (poll.pc = "polling") ~> (poll.pc = "returned")
    /\ [][ /\ (poll.pc = "polling" /\ poll'.pc = "polling") =>
                 (poll'.last_mem > 0 /\ poll'.last_mem < poll.last_mem)
           /\ (poll.pc # "polling" /\ poll'.pc = "returned") =>
                 /\ thread_data.device = poll'.target \/ poll'.start_mem = 0
                 /\ ~poll'.moved /\ ~poll'.polled
           /\ (poll.pc # "polling" /\ poll'.pc = "polling") =>
                 (thread_data.device # poll'.target /\ poll'.start_mem > 0) ]_vars

\* a call on the second accelerator whose first reading was the highest moved
\* the model to the CPU, polled, and returned after a last reading of 1
C29_Witness ==
    /\ poll.pc = "returned" /\ poll.polled /\ poll.moved
    /\ thread_data.device = IntDevice(1) /\ poll.target = CpuDevice
    /\ poll.start_mem = MaxReading /\ poll.last_mem = 1

====
